---- MODULE Spec2Model ----
(***************************************************************************)
(* hydrazine math.h: bit manipulation and extended precision arithmetic    *)
(* over the machine integer types of width 8, 16, 32 and 64 bits.          *)
(*                                                                         *)
(* A machine integer of width w is modelled by its bit pattern: the set    *)
(* of the positions 0..w-1 whose bit is 1 (position 0 is the least         *)
(* significant bit).  An unsigned pattern S denotes the sum of 2^i over    *)
(* i in S; a signed one is read in two's complement.  The C++ operators    *)
(* are defined on patterns, at the width the expression has after the      *)
(* integral promotions, and an assignment converts the result back to the  *)
(* width of the variable.                                                  *)
(***************************************************************************)
EXTENDS Integers, FiniteSets, Sequences, TLC

VARIABLES
    op,      \* the function being called, "idle" between calls
    ty,      \* the template argument `type` of the call: [w: width, s: signed]
    args,    \* the arguments of the call
    ub,      \* what this build does where the call has undefined behaviour
    res,     \* the outcome of the call, NoRes while it is running
    value,   \* popc: the local copy of the operand
    count    \* popc: the local counter

vars == <<op, ty, args, ub, res, value, count>>

(***************************************************************************)
(* Bounds of the model.                                                    *)
(***************************************************************************)
\* operands of the one-operand functions: patterns over this many positions
ValBits == 5
\* operands of multiplyHiLo and addHiLo: patterns over this many positions
ArithBits == 3
\* operands of powerOfTwo: at most this many bits set above a run of ones
MaxSetBits == 2
\* popc's counter is kept modulo this (the code's wraps at 2^32)
CountMod == 70

(***************************************************************************)
(* The integer types.                                                      *)
(***************************************************************************)
\* width of int and unsigned int, the types narrower operands promote to
IntBits == 32

Widths == {8, 16, 32, 64}

Types == [w : Widths, s : BOOLEAN]

IntT == [w |-> IntBits, s |-> TRUE]

UIntT == [w |-> IntBits, s |-> FALSE]

\* SignedToUnsigned< type >::type
SignedToUnsigned(t) == [w |-> t.w, s |-> FALSE]

\* the type of an operand of type t after the integral promotions
Promoted(t) == IF t.w < IntBits THEN IntT ELSE t

(***************************************************************************)
(* Bit patterns and the built-in operators on them.                        *)
(***************************************************************************)
Max(S) == CHOOSE x \in S : \A y \in S : y <= x

Min2(a, b) == IF a < b THEN a ELSE b

Bit(S, i) == IF i \in S THEN 1 ELSE 0

\* the pattern of a small natural number n < 2^31
RECURSIVE FromNat(_)
FromNat(n) == IF n = 0 THEN {} ELSE
    (IF n % 2 = 1 THEN {0} ELSE {}) \cup {i + 1 : i \in FromNat(n \div 2)}

\* the number a short unsigned pattern denotes (positions below 31 only)
RECURSIVE ToNat(_)
ToNat(S) == IF S = {} THEN 0 ELSE 2 ^ Max(S) + ToNat(S \ {Max(S)})

AllOnes(w) == 0 .. (w - 1)

Trunc(w, S) == S \cap AllOnes(w)

\* ~x at width w
Not(w, S) == AllOnes(w) \ S

\* x << n at width w
Shl(w, S, n) == {i + n : i \in S} \cap AllOnes(w)

\* x >> n, logical
Shr(S, n) == {i - n : i \in {j \in S : j >= n}}

\* x >> n at width w, arithmetic: the sign bit is replicated
Sar(w, S, n) ==
    Shr(S, n) \cup (IF (w - 1) \in S THEN {i \in AllOnes(w) : i >= w - n} ELSE {})

\* conversion of a pattern of width w to a wider width: sign or zero extension
Extend(from, to, S) ==
    IF from.s /\ (from.w - 1) \in S
    THEN S \cup {i \in AllOnes(to.w) : i >= from.w}
    ELSE S

\* the number held by the eight bits of S from position base on
Byte(S, base) ==
    Bit(S, base) + 2 * Bit(S, base + 1) + 4 * Bit(S, base + 2)
    + 8 * Bit(S, base + 3) + 16 * Bit(S, base + 4) + 32 * Bit(S, base + 5)
    + 64 * Bit(S, base + 6) + 128 * Bit(S, base + 7)

\* the eight bits of n < 256, placed from position base on
ByteBits(n, base) == {base + j : j \in {k \in 0 .. 7 : (n \div (2 ^ k)) % 2 = 1}}

\* the adder, a byte at a time from position base on, with carry c
RECURSIVE AddBits(_, _, _, _, _)
AddBits(w, A, B, base, c) ==
    IF base >= w THEN {}
    ELSE LET t == Byte(A, base) + Byte(B, base) + c
         IN  (ByteBits(t % 256, base) \cap AllOnes(w))
             \cup AddBits(w, A, B, base + 8, t \div 256)

\* x + y modulo 2^w
Add(w, A, B) == AddBits(w, A, B, 0, 0)

\* x - y modulo 2^w
Sub(w, A, B) == AddBits(w, A, Not(w, B), 0, 1)

\* -x modulo 2^w
Neg(w, A) == AddBits(w, {}, Not(w, A), 0, 1)

\* the number of pairs of a bit i of A and a bit j of B with i + j = k
Column(A, B, k) == Cardinality({i \in A : (k - i) \in B})

\* the multiplier: the columns are summed a byte at a time, with carry c
RECURSIVE MulBits(_, _, _, _, _)
MulBits(w, A, B, base, c) ==
    IF base >= w THEN {}
    ELSE LET t == Column(A, B, base) + 2 * Column(A, B, base + 1)
                  + 4 * Column(A, B, base + 2) + 8 * Column(A, B, base + 3)
                  + 16 * Column(A, B, base + 4) + 32 * Column(A, B, base + 5)
                  + 64 * Column(A, B, base + 6) + 128 * Column(A, B, base + 7) + c
         IN  (ByteBits(t % 256, base) \cap AllOnes(w))
             \cup MulBits(w, A, B, base + 8, t \div 256)

\* x * y modulo 2^w
Mul(w, A, B) == MulBits(w, A, B, 0, 0)

\* x < y, both unsigned
Lt(A, B) ==
    LET D == (A \ B) \cup (B \ A) IN D # {} /\ Max(D) \in B

\* the most negative value of a signed type of width w
MinSigned(w) == {w - 1}

(***************************************************************************)
(* The operands the calls are made with.                                   *)
(***************************************************************************)
\* positions where the algorithms change behaviour: the ends of the word and
\* the half-word boundary
Pos(w) == <<0, w - 1, w \div 2, (w \div 2) - 1, 1, w - 2>>

PosSet(w, n) == {Pos(w)[k] : k \in 1 .. Min2(n, Len(Pos(w)))}

\* the patterns over the first n of these positions, and their complements
Vals(w, n) ==
    {S : S \in SUBSET PosSet(w, n)} \cup {Not(w, S) : S \in SUBSET PosSet(w, n)}

NoRes == [st |-> "running"]

Returned(r) == [st |-> "returned", val |-> r]

\* the call ended in assert() failing
AssertFailed == [st |-> "assert"]

\* the call ended in the trap of a build that traps on undefined behaviour
Trapped == [st |-> "trap"]

(***************************************************************************)
(* Undefined behaviour.  The code overflows signed arithmetic and shifts   *)
(* an int by more than its width; what happens then is the build's choice: *)
(*   "hw"    the machine instruction's result: overflow wraps, the shift   *)
(*           count is taken modulo the width of int;                       *)
(*   "fold"  the compiler's own evaluation: overflow wraps, an oversized   *)
(*           shift yields 0;                                               *)
(*   "trap"  a trapping build (-ftrapv, a sanitizer): the call aborts.     *)
(***************************************************************************)
Builds == {"hw", "fold", "trap"}

(***************************************************************************)
(* Compound assignment to a variable of type t: the operand is promoted,   *)
(* shifted at the promoted type, and converted back to t.                  *)
(***************************************************************************)
\* v >>= n for v of type t (an arithmetic shift when the promoted type is signed)
ShiftRight(t, v, n) ==
    LET P == Promoted(t)
        x == Extend(t, P, v)
    IN  Trunc(t.w, IF P.s THEN Sar(P.w, x, n) ELSE Shr(x, n))

\* v <<= n for v of type t
ShiftLeft(t, v, n) ==
    LET P == Promoted(t)
        x == Extend(t, P, v)
    IN  Trunc(t.w, Shl(P.w, x, n))

(***************************************************************************)
(* Power of two checks                                                     *)
(***************************************************************************)
\* isPowerOfTwo( int ) and isPowerOfTwo( unsigned int ): t is IntT or UIntT.
\* ~value + 1 overflows for the int INT_MIN.
isPowerOfTwo(t, v, u) ==
    IF t.s /\ Not(t.w, v) = AllOnes(t.w - 1) /\ u = "trap"
    THEN Trapped
    ELSE Returned((v \cap Add(t.w, Not(t.w, v), {0})) = v)

\* modPowerOfTwo without its assert( value != 0 )
modPowerOfTwoNoAssert(t, value1, v, u) ==
    IF t.s /\ v = MinSigned(t.w) /\ u = "trap" THEN Trapped
    ELSE Returned(value1 \cap Sub(t.w, v, {0}))

\* modPowerOfTwo( value1, value ) for int and for unsigned int.
\* value - 1 overflows for the int INT_MIN.
modPowerOfTwo(t, value1, v, u) ==
    IF v = {} THEN AssertFailed
    ELSE IF t.s /\ v = MinSigned(t.w) /\ u = "trap" THEN Trapped
    ELSE Returned(value1 \cap Sub(t.w, v, {0}))

\* value |= value >> n, on unsigned int
OrShift(v, n) == v \cup Shr(v, n)

\* powerOfTwo without its value--
powerOfTwoNoDecrement(v) ==
    LET v1 == OrShift(v, 1)
        v2 == OrShift(v1, 2)
        v3 == OrShift(v2, 4)
        v4 == OrShift(v3, 8)
        v5 == OrShift(v4, 16)
    IN  Add(IntBits, v5, {0})

\* powerOfTwo( unsigned int value )
powerOfTwo(v) ==
    LET v0 == Sub(IntBits, v, {0})
        v1 == OrShift(v0, 1)
        v2 == OrShift(v1, 2)
        v3 == OrShift(v2, 4)
        v4 == OrShift(v3, 8)
        v5 == OrShift(v4, 16)
    IN  Add(IntBits, v5, {0})

(***************************************************************************)
(* Bit Manipulation                                                        *)
(***************************************************************************)
RECURSIVE clzLoop(_, _, _)
clzLoop(t, v, n) ==
    IF n < t.w /\ (v \cap {t.w - 1}) = {}
    THEN clzLoop(t, ShiftLeft(t, v, 1), n + 1)
    ELSE n

\* countLeadingZeros( type value ), the unsigned int it returns
countLeadingZeros(t, v) == FromNat(clzLoop(t, v, 0))

\* the int 1 << i of bfind, for the long long i
OneShl(i, u) ==
    IF i < IntBits THEN {i}
    ELSE IF u = "hw" THEN {i % IntBits}
    ELSE {}

\* value & ( 1 << i ): the int is converted to the promoted type of value
bfindTest(t, v, i, u) ==
    LET P == Promoted(t)
    IN  (Extend(t, P, v) \cap Extend(IntT, P, OneShl(i, u))) # {}

RECURSIVE bfindLoop(_, _, _, _)
bfindLoop(t, v, i, u) ==
    IF i < 0 THEN AllOnes(IntBits)
    ELSE IF bfindTest(t, v, i, u) THEN FromNat(i)
    ELSE bfindLoop(t, v, i - 1, u)

\* bfind with d = 8 * sizeof( type ) - d for the shift amount
bfindShiftFromWidth(t, v, shiftAmount, u) ==
    LET msb == t.w - 1
        d   == bfindLoop(t, v, msb, u)
    IN  IF msb >= IntBits /\ u = "trap" THEN Trapped
        ELSE IF shiftAmount /\ d # AllOnes(IntBits)
        THEN Returned(FromNat(t.w - ToNat(d)))
        ELSE Returned(d)

\* bfind( type value, bool shiftAmount ), the unsigned int it returns
bfind(t, v, shiftAmount, u) ==
    LET msb == t.w - 1
        d   == bfindLoop(t, v, msb, u)
    IN  IF msb >= IntBits /\ u = "trap" THEN Trapped
        ELSE IF shiftAmount /\ d # AllOnes(IntBits)
        THEN Returned(FromNat(msb - ToNat(d)))
        ELSE Returned(d)

\* bitExtract( type value, unsigned int position )
bitExtract(t, v, position) ==
    LET v1 == ShiftRight(t, v, position)
        v2 == v1 \cap {0}
    IN  ShiftLeft(t, v2, position)

\* bitInsert( type value, type bit, unsigned int position )
bitInsert(t, v, bit, position) ==
    LET b1   == bit \cap {0}
        b2   == ShiftLeft(t, b1, position)
        mask == Not(t.w, b2)
        v1   == v \cap mask
    IN  v1 \cup b2

\* result after the first n iterations of brev's loop, i = 0 .. n - 1
RECURSIVE brevLoop(_, _, _)
brevLoop(t, v, n) ==
    LET msb == t.w - 1
        i   == n - 1
    IN  IF n = 0 THEN {}
        ELSE bitInsert(t, brevLoop(t, v, i), bitExtract(t, v, msb - i), i)

\* brev( type value ): the loop runs for i = 0 .. msb
brev(t, v) == brevLoop(t, v, t.w)

(***************************************************************************)
(* Extended precision                                                      *)
(***************************************************************************)
\* isNegative( r ), from MetaProgramming.h: r < 0, never so for an unsigned type
isNegative(t, r) == t.s /\ (t.w - 1) \in r

\* -v for v of type t, converted back to t
Negate(t, v) ==
    LET P == Promoted(t)
    IN  Trunc(t.w, Neg(P.w, Extend(t, P, v)))

\* -v overflows: v is the most negative value of int or of long long
NegateOverflows(t, v) == t.s /\ t.w >= IntBits /\ v = MinSigned(t.w)

\* ( ( type ) 1 << n ) - 1, converted to utype
LowMask(t, n) ==
    LET P == Promoted(t)
    IN  Trunc(t.w, Sub(P.w, Shl(P.w, {0}, n), {0}))

\* ( ( type ) 1 << totalBits ) - 1 overflows: 1 << totalBits is the most
\* negative value of int or of long long
UpperMaskOverflows(t) == t.s /\ t.w >= IntBits

\* multiplyHiLo( type& hi, type& lo, type r0, type r1 ) with the arguments
\* r0in, r1in; the hi and lo it leaves
multiplyHiLo(t, r0in, r1in, u) ==
    LET w  == t.w
        PW == Promoted(t).w
        plus(x, y)  == Add(PW, x, y)
        times(x, y) == Mul(PW, x, y)
        conv(x)     == Trunc(w, x)
        r0Signed == isNegative(t, r0in)
        r1Signed == isNegative(t, r1in)
        r0 == IF r0Signed THEN Negate(t, r0in) ELSE r0in
        r1 == IF r1Signed THEN Negate(t, r1in) ELSE r1in
        negative == (r0Signed /\ ~r1Signed) \/ (r1Signed /\ ~r0Signed)
        bits == w \div 2
        mask == LowMask(t, bits)
        a == conv(Shr(r0, bits))
        b == r0 \cap mask
        c == conv(Shr(r1, bits))
        d == r1 \cap mask
        da == conv(times(d, a))
        db == conv(times(d, b))
        ca == conv(times(c, a))
        cb == conv(times(c, b))
        totalBits == w - 1
        upperMask == LowMask(t, totalBits)
        daUpper == Shr(da, totalBits)
        cbUpper == Shr(cb, totalBits)
        xCarryIn == conv(Shr(plus(da \cap upperMask, cb \cap upperMask), totalBits))
        xCarryOut == conv(Shr(plus(plus(daUpper, cbUpper), xCarryIn), 1))
        x == conv(plus(da, cb))
        xUpper == Shr(x, totalBits)
        yCarryIn == conv(Shr(plus(x \cap upperMask, Shr(db, bits)), totalBits))
        yCarryOut == conv(Shr(plus(yCarryIn, xUpper), 1))
        y == conv(plus(Shr(db, bits), x))
        lo1 == conv((db \cap mask) \cup Shl(PW, y \cap mask, bits))
        hi1 == conv(plus(plus(Shr(y, bits), ca),
                         Shl(PW, plus(yCarryOut, xCarryOut), bits)))
        loUpperBit == Shr(Not(w, lo1), totalBits)
        signCarryIn == conv(Shr(plus(Not(w, lo1) \cap upperMask, {0}), totalBits))
        signCarryOut == conv(Shr(plus(loUpperBit, signCarryIn), 1))
        lo2 == IF negative THEN Negate(t, lo1) ELSE lo1
        hi2 == IF negative THEN conv(plus(Not(w, hi1), signCarryOut)) ELSE hi1
        overflows ==
            \/ r0Signed /\ NegateOverflows(t, r0in)
            \/ r1Signed /\ NegateOverflows(t, r1in)
            \/ UpperMaskOverflows(t)
            \/ negative /\ NegateOverflows(t, lo1)
    IN  IF overflows /\ u = "trap" THEN Trapped
        ELSE Returned([hi |-> hi2, lo |-> lo2])

\* addHiLo with the carry detected by <= in place of <
addHiLoCarryLe(t, hi, lo, r0) ==
    LET utype == SignedToUnsigned(t)
        PW  == Promoted(utype).w
        loResult == Trunc(utype.w, Add(PW, r0, lo))
        carry == IF ~Lt(r0, loResult) \/ ~Lt(lo, loResult) THEN {0} ELSE {}
        hiResult == Trunc(utype.w, Add(PW, hi, carry))
    IN  [hi |-> hiResult, lo |-> loResult]

\* addHiLo( type& hi, type& lo, type r0 ); the hi and lo it leaves
addHiLo(t, hi, lo, r0) ==
    LET utype == SignedToUnsigned(t)
        PW  == Promoted(utype).w
        uHi == hi
        uLo == lo
        uR0 == r0
        loResult == Trunc(utype.w, Add(PW, uR0, uLo))
        carry == IF Lt(loResult, uR0) \/ Lt(loResult, uLo) THEN {0} ELSE {}
        hiResult == Trunc(utype.w, Add(PW, uHi, carry))
    IN  [hi |-> hiResult, lo |-> loResult]

(***************************************************************************)
(* The calls.                                                              *)
(***************************************************************************)
NoArgs == <<>>

Init ==
    /\ op = "idle"
    /\ ty = IntT
    /\ args = NoArgs
    /\ ub = "none"
    /\ res = NoRes
    /\ value = {}
    /\ count = 0

\* a call has returned (or aborted) and the caller goes on
Return ==
    /\ op # "idle"
    /\ res # NoRes
    /\ op' = "idle"
    /\ ty' = IntT
    /\ args' = NoArgs
    /\ ub' = "none"
    /\ res' = NoRes
    /\ value' = {}
    /\ count' = 0

\* the operands of the int and unsigned int overloads
IntTypes == {IntT, UIntT}

\* the unsigned int operands powerOfTwo is called with: a run of low ones
\* (possibly empty) with at most MaxSetBits further bits set
RECURSIVE Sparse(_, _)
Sparse(w, n) ==
    IF n = 0 THEN {{}}
    ELSE LET R == Sparse(w, n - 1)
         IN  R \cup {S \cup {i} : S \in R, i \in AllOnes(w)}

PowVals == {S \cup AllOnes(k) : S \in Sparse(IntBits, MaxSetBits), k \in 0 .. IntBits}

\* the values of the bit argument of bitInsert: 0, 1, 2, 3 and -1
BitVals(w) == {{}, {0}, {1}, {0, 1}, AllOnes(w)}

Call(name, t, a, u, r) ==
    /\ op' = name
    /\ ty' = t
    /\ args' = a
    /\ ub' = u
    /\ res' = r
    /\ UNCHANGED <<value, count>>

CallIsPowerOfTwo ==
    /\ op = "idle"
    /\ \E t \in IntTypes, v \in Vals(IntBits, ValBits), u \in Builds :
           Call("isPowerOfTwo", t, <<v>>, u, isPowerOfTwo(t, v, u))

CallModPowerOfTwo ==
    /\ op = "idle"
    /\ \E t \in IntTypes, v1 \in Vals(IntBits, ArithBits),
          v \in Vals(IntBits, ValBits), u \in Builds :
           Call("modPowerOfTwo", t, <<v1, v>>, u, modPowerOfTwo(t, v1, v, u))

CallPowerOfTwo ==
    /\ op = "idle"
    /\ \E v \in PowVals :
           Call("powerOfTwo", UIntT, <<v>>, "none", Returned(powerOfTwo(v)))

CallCountLeadingZeros ==
    /\ op = "idle"
    /\ \E t \in Types : \E v \in Vals(t.w, ValBits) :
           Call("countLeadingZeros", t, <<v>>, "none",
                Returned(countLeadingZeros(t, v)))

CallBfind ==
    /\ op = "idle"
    /\ \E t \in Types, shiftAmount \in BOOLEAN, u \in Builds :
           \E v \in Vals(t.w, ValBits) :
               Call("bfind", t, <<v, shiftAmount>>, u, bfind(t, v, shiftAmount, u))

CallBitExtract ==
    /\ op = "idle"
    /\ \E t \in Types : \E v \in Vals(t.w, ValBits), position \in PosSet(t.w, ValBits) :
           Call("bitExtract", t, <<v, position>>, "none",
                Returned(bitExtract(t, v, position)))

CallBitInsert ==
    /\ op = "idle"
    /\ \E t \in Types : \E v \in Vals(t.w, ValBits), bit \in BitVals(t.w),
                           position \in PosSet(t.w, ValBits) :
           Call("bitInsert", t, <<v, bit, position>>, "none",
                Returned(bitInsert(t, v, bit, position)))

CallBrev ==
    /\ op = "idle"
    /\ \E t \in Types : \E v \in Vals(t.w, ValBits) :
           Call("brev", t, <<v>>, "none", Returned(brev(t, v)))

\* the values of hi in the calls of addHiLo: 0, 1, the largest signed value,
\* the most negative one, and all ones
HiVals(w) == {{}, {0}, AllOnes(w - 1), MinSigned(w), AllOnes(w)}

CallAddHiLo ==
    /\ op = "idle"
    /\ \E t \in Types : \E hi \in HiVals(t.w), lo \in Vals(t.w, ArithBits),
                           r0 \in Vals(t.w, ArithBits) :
           Call("addHiLo", t, <<hi, lo, r0>>, "none", Returned(addHiLo(t, hi, lo, r0)))

CallMultiplyHiLo ==
    /\ op = "idle"
    /\ \E t \in Types, u \in Builds :
           \E r0 \in Vals(t.w, ArithBits), r1 \in Vals(t.w, ArithBits) :
               Call("multiplyHiLo", t, <<r0, r1>>, u, multiplyHiLo(t, r0, r1, u))

\* popc( type value ) is entered: count = 0
CallPopc ==
    /\ op = "idle"
    /\ \E t \in Types : \E v \in Vals(t.w, ValBits) :
           /\ op' = "popc"
           /\ ty' = t
           /\ args' = <<v>>
           /\ value' = v
    /\ ub' = "none"
    /\ res' = NoRes
    /\ count' = 0

\* one iteration of popc's loop: while( value != 0 )
PopcLoop ==
    /\ op = "popc"
    /\ res = NoRes
    /\ value # {}
    /\ count' = IF (value \cap {0}) # {} THEN (count + 1) % CountMod ELSE count
    /\ value' = ShiftRight(ty, value, 1)
    /\ UNCHANGED <<op, ty, args, ub, res>>

\* popc leaves its loop and returns count
PopcReturn ==
    /\ op = "popc"
    /\ res = NoRes
    /\ value = {}
    /\ res' = Returned(FromNat(count))
    /\ UNCHANGED <<op, ty, args, ub, value, count>>

Next ==
    \/ CallIsPowerOfTwo
    \/ CallModPowerOfTwo
    \/ CallPowerOfTwo
    \/ CallCountLeadingZeros
    \/ CallBfind
    \/ CallBitExtract
    \/ CallBitInsert
    \/ CallBrev
    \/ CallAddHiLo
    \/ Return

Spec == Init /\ [][Next]_vars

\* the calls of multiplyHiLo
NextMul ==
    \/ CallMultiplyHiLo
    \/ Return

SpecMul == Init /\ [][NextMul]_vars

\* the calls of popc.  A call runs to its end without being suspended, so
\* the loop is taken, and left, whenever it can be
NextPopc ==
    \/ CallPopc
    \/ PopcLoop
    \/ PopcReturn
    \/ Return

FairSpec == Init /\ [][NextPopc]_vars /\ WF_vars(PopcLoop) /\ WF_vars(PopcReturn)

(***************************************************************************)
(* Reference values the properties are stated with.                        *)
(***************************************************************************)
\* hi:lo as a pattern of width 2w
Join(w, hi, lo) == lo \cup {i + w : i \in hi}

\* the type of twice the width
Double(t) == [w |-> 2 * t.w, s |-> t.s]

\* the operand r of type t as a value of twice the width
Widen(t, r) == Extend(t, Double(t), r)

\* the largest value of type t
MaxOf(t) == IF t.s THEN AllOnes(t.w - 1) ELSE AllOnes(t.w)

\* p is a power of two, 2^k with k >= 0
IsPow2(t, p) == Cardinality(p) = 1 /\ ~isNegative(t, p)

(***************************************************************************)
(* C1: for every pair r0, r1 of one type, signed or unsigned, the most     *)
(* negative value included, multiplyHiLo leaves hi and lo with hi:lo equal *)
(* to the exact product r0 * r1 in 2W bits.                                *)
(* Fails: for int and long long the code overflows signed arithmetic       *)
(* (line 238 in every call, lines 209, 210, 261 at the most negative       *)
(* value), and a trapping build aborts the call.                           *)
(***************************************************************************)
C1_MultiplyExact ==
    op = "multiplyHiLo" =>
        /\ res.st = "returned"
        /\ Join(ty.w, res.val.hi, res.val.lo)
               = Mul(2 * ty.w, Widen(ty, args[1]), Widen(ty, args[2]))

\* what does hold: a call that is not trapped leaves the exact product
MultiplyExactUnlessTrapped ==
    op = "multiplyHiLo" /\ res.st = "returned" =>
        Join(ty.w, res.val.hi, res.val.lo)
            = Mul(2 * ty.w, Widen(ty, args[1]), Widen(ty, args[2]))

\* and only calls with a signed type of at least the width of int trap
MultiplyTrapsOnlySignedWide ==
    op = "multiplyHiLo" /\ res.st # "returned" =>
        res = Trapped /\ ub = "trap" /\ ty.s /\ ty.w >= IntBits

(***************************************************************************)
(* C2: addHiLo is exact for signed and unsigned types: when hi has room    *)
(* for a carry, hi':lo' equals hi:lo plus r0 read in the type, so that a   *)
(* negative r0 decreases the value.                                        *)
(* Fails: r0 is added as an unsigned value also for a signed type.         *)
(***************************************************************************)
C2_AddExact ==
    op = "addHiLo" /\ args[1] # MaxOf(ty) =>
        Join(ty.w, res.val.hi, res.val.lo)
            = Add(2 * ty.w, Join(ty.w, args[1], args[2]), Widen(ty, args[3]))

(***************************************************************************)
(* C3: brev(v) is the bit reversal of v: bit i of the result is bit        *)
(* W-1-i of v, and so brev(brev(v)) = v.                                   *)
(* Fails: bitExtract leaves the bit at its position and bitInsert takes    *)
(* bit 0 of what it is given, so that only bit 0 of v arrives (at W-1).    *)
(***************************************************************************)
C3_BrevReverses ==
    op = "brev" =>
        /\ \A i \in AllOnes(ty.w) : (i \in res.val) <=> ((ty.w - 1 - i) \in args[1])
        /\ brev(ty, res.val) = args[1]

(***************************************************************************)
(* C4: bitInsert(v, bit, pos) is v with the bit at pos replaced by         *)
(* bit & 1 (cleared for 0, set for 1), the other bits unchanged.           *)
(* Fails: for bit & 1 = 0 the mask is all ones and v is returned as it is. *)
(***************************************************************************)
C4_BitInsertReplaces ==
    op = "bitInsert" =>
        res.val = (args[1] \ {args[3]})
                      \cup (IF 0 \in args[2] THEN {args[3]} ELSE {})

(***************************************************************************)
(* C5: for every v of every type, negative values included, popc(v)        *)
(* terminates and returns the number of bits set among the W bits of v.    *)
(* Fails: value >>= 1 keeps the sign of a negative value, which never      *)
(* becomes 0.                                                              *)
(***************************************************************************)
C5_PopcTerminates ==
    (op = "popc") ~>
        (/\ op = "popc"
         /\ res.st = "returned"
         /\ res.val = FromNat(Cardinality(args[1])))

(***************************************************************************)
(* C6: for the widths 8, 16, 32 and 64, signed or unsigned,                *)
(* bfind(v, false) is the index of the most significant set bit of v, and  *)
(* the unsigned -1 for v = 0.                                              *)
(* Fails at width 64: 1 << i is an int, shifted by up to 63.  Stated for    *)
(* the builds that do not trap, where a wrong index is returned.           *)
(***************************************************************************)
C6_BfindMsb ==
    op = "bfind" /\ args[2] = FALSE /\ ub # "trap" =>
        res = Returned(IF args[1] = {} THEN AllOnes(IntBits)
                       ELSE FromNat(Max(args[1])))

C8_PowerOfTwo ==
    op = "powerOfTwo" /\ args[1] # {} /\ ~Lt({IntBits - 1}, args[1]) =>
        LET v == args[1]
            p == res.val
        IN  /\ res.st = "returned"
            /\ isPowerOfTwo(UIntT, p, "hw") = Returned(TRUE)
            /\ Cardinality(p) = 1
            /\ ~Lt(p, v)
            /\ Lt(p, {i + 1 : i \in v})
            /\ (p = v) <=> (Cardinality(v) = 1)

\* powerOfTwo(2^30 + 1) = 2^31
C8_Witness ==
    /\ op = "powerOfTwo"
    /\ args = <<{0, 30}>>
    /\ res = Returned({31})

(***************************************************************************)
(* C9, as claimed: modPowerOfTwo(v, p) fails its assertion whenever p is   *)
(* not a nonzero power of two, and returns a value, v & (p - 1), only when *)
(* p is one.  Stated for p >= 0 and the builds that do not trap.            *)
(***************************************************************************)
C9_Original ==
    op = "modPowerOfTwo" /\ ub # "trap" /\ ~isNegative(ty, args[2]) =>
        /\ ~IsPow2(ty, args[2]) => res = AssertFailed
        /\ res.st = "returned" =>
               /\ IsPow2(ty, args[2])
               /\ res.val = args[1] \cap Sub(ty.w, args[2], {0})

(***************************************************************************)
(* C9, amended: modPowerOfTwo(v, p) fails its assertion exactly when       *)
(* p = 0.  For every other p, power of two or not, it evaluates            *)
(* v & (p - 1) and returns it (p - 1 overflows for the int INT_MIN, where  *)
(* a trapping build aborts instead); for p = 2^k that is the low k bits    *)
(* of v.                                                                   *)
(***************************************************************************)
C9_ModPowerOfTwo ==
    op = "modPowerOfTwo" =>
        LET v == args[1]
            p == args[2]
        IN  /\ (res = AssertFailed) <=> (p = {})
            /\ res.st = "returned" => res.val = v \cap Sub(ty.w, p, {0})
            /\ p # {} /\ ~(ty.s /\ p = MinSigned(ty.w)) => res.st = "returned"
            /\ IsPow2(ty, p) => res = Returned({i \in v : i < Max(p)})

\* modPowerOfTwo(0xFFFFFFFF, 3) returns 2, on unsigned int
C9_Witness ==
    /\ op = "modPowerOfTwo"
    /\ ty = UIntT
    /\ args = <<AllOnes(IntBits), {0, 1}>>
    /\ res = Returned({1})

(***************************************************************************)
(* C10: addHiLo(hi, lo, r0) sets lo' = (lo + r0) mod 2^W on the unsigned   *)
(* bit patterns and hi' = (hi + carry) mod 2^W, where carry is 1 exactly   *)
(* when the unsigned sum of lo and r0 is at least 2^W; for 32 bit unsigned *)
(* operands addHiLo(0, 0xFFFFFFFF, 1) yields (1, 0).                       *)
(***************************************************************************)
C10_AddCarry ==
    op = "addHiLo" =>
        LET w     == ty.w
            sum   == Add(w + 1, args[2], args[3])
            carry == IF w \in sum THEN {0} ELSE {}
        IN  /\ res.st = "returned"
            /\ res.val.lo = Trunc(w, sum)
            /\ res.val.hi = Add(w, args[1], carry)
            /\ (carry = {0}) <=>
                   (Lt(res.val.lo, args[2]) \/ Lt(res.val.lo, args[3]))

\* addHiLo(hi = 0, lo = 0xFFFFFFFF, r0 = 1) on unsigned int
C10_Witness ==
    /\ op = "addHiLo"
    /\ ty = UIntT
    /\ args = <<{}, AllOnes(IntBits), {0}>>
    /\ res = Returned([hi |-> {0}, lo |-> {}])
====
